---- MODULE Spec2Model ----
(***************************************************************************)
(* Model of dados_nf_55_app.py: the NF-e access-key decoder                *)
(* (parse_nfe_key), the CNPJ tax-regime client (get_cnpj_tax_regime) and   *)
(* the batch loop behind the "Processar Chaves de Acesso" button.          *)
(*                                                                         *)
(* Strings are sequences of one-character strings.  The character "sup2"   *)
(* stands for U+00B2 (superscript two), a character for which Python's     *)
(* str.isdigit() is True while int() rejects it and the regex \D matches   *)
(* it.  Time is counted in whole seconds.                                  *)
(***************************************************************************)
EXTENDS Integers, Sequences, FiniteSets, TLC

\* ------------------------------------------------------------------ bounds
\* longest small batch whose lines are enumerated freely
MaxLines == 3
\* longest duration, in seconds, of an HTTP request that gets a response
MaxDur == 1
\* nested get_cnpj_tax_regime frames the interpreter allows before it raises
\* RecursionError, which the frame's "except Exception" catches (the source
\* leaves sys.getrecursionlimit() at its default of 1000; scaled down here)
RecursionLimit == 2

\* ------------------------------------------------------- program constants
RATE_LIMIT_SECONDS == 4
BACKOFF_SECONDS == 5
TIMEOUT_SECONDS == 15
BATCH_CAP == 400
KEY_LEN == 44
CNPJ_LEN == 14

\* --------------------------------------------------------------- characters
Digits == {"0", "1", "2", "3", "4", "5", "6", "7", "8", "9"}

\* str.isdigit(), one character: decimal digits and other Unicode digits
IsDigitChar(c) == c \in Digits \cup {"sup2"}

\* what \d matches and int() accepts, one character
IsDecimalChar(c) == c \in Digits

IsSpaceChar(c) == c = " "

DigitVal(c) ==
  CASE c = "0" -> 0 [] c = "1" -> 1 [] c = "2" -> 2 [] c = "3" -> 3
    [] c = "4" -> 4 [] c = "5" -> 5 [] c = "6" -> 6 [] c = "7" -> 7
    [] c = "8" -> 8 [] c = "9" -> 9

\* str.isdigit(): a non-empty string of digit characters
str_isdigit(s) == Len(s) > 0 /\ \A n \in 1..Len(s) : IsDigitChar(s[n])

\* every character is one of 0..9
AllDecimal(s) == \A n \in 1..Len(s) : IsDecimalChar(s[n])

\* Python s[a:b]
Slice(s, a, b) ==
  LET hi == IF b < Len(s) THEN b ELSE Len(s)
  IN  IF a >= hi THEN << >> ELSE SubSeq(s, a + 1, hi)

RECURSIVE LStrip(_)
LStrip(s) == IF s # << >> /\ IsSpaceChar(Head(s)) THEN LStrip(Tail(s)) ELSE s

RECURSIVE RStrip(_)
RStrip(s) ==
  IF s # << >> /\ IsSpaceChar(s[Len(s)]) THEN RStrip(SubSeq(s, 1, Len(s) - 1))
  ELSE s

\* str.strip()
Strip(s) == RStrip(LStrip(s))

\* int(s) of a string of decimal digits
RECURSIVE int(_)
int(s) == IF s = << >> THEN 0
          ELSE 10 * int(SubSeq(s, 1, Len(s) - 1)) + DigitVal(s[Len(s)])

\* ------------------------------------------------------------ lookup tables
UF_CODES ==
  (<<"1","1">> :> "RO") @@ (<<"1","2">> :> "AC") @@ (<<"1","3">> :> "AM") @@
  (<<"1","4">> :> "RR") @@ (<<"1","5">> :> "PA") @@ (<<"1","6">> :> "AP") @@
  (<<"1","7">> :> "TO") @@ (<<"2","1">> :> "MA") @@ (<<"2","2">> :> "PI") @@
  (<<"2","3">> :> "CE") @@ (<<"2","4">> :> "RN") @@ (<<"2","5">> :> "PB") @@
  (<<"2","6">> :> "PE") @@ (<<"2","7">> :> "AL") @@ (<<"2","8">> :> "SE") @@
  (<<"2","9">> :> "BA") @@ (<<"3","1">> :> "MG") @@ (<<"3","2">> :> "ES") @@
  (<<"3","3">> :> "RJ") @@ (<<"3","5">> :> "SP") @@ (<<"4","1">> :> "PR") @@
  (<<"4","2">> :> "SC") @@ (<<"4","3">> :> "RS") @@ (<<"5","0">> :> "MS") @@
  (<<"5","1">> :> "MT") @@ (<<"5","2">> :> "GO") @@ (<<"5","3">> :> "DF")

EMISSION_TYPES ==
  (<<"1">> :> "Normal (Saida)") @@ (<<"2">> :> "Contingencia FS-IA") @@
  (<<"3">> :> "Contingencia SCAN") @@ (<<"4">> :> "Contingencia DPEC") @@
  (<<"5">> :> "Contingencia FS-DA") @@ (<<"6">> :> "Contingencia SVC-AN") @@
  (<<"7">> :> "Contingencia SVC-RS") @@
  (<<"9">> :> "Contingencia Off-line NFC-e")

\* dict.get(k, default)
DictGet(d, k, default) == IF k \in DOMAIN d THEN d[k] ELSE default

\* ------------------------------------------------------------------ decoder
\* a variant of FormatAnoMes that lets month 00 through
FormatAnoMesNoLowerBound(year_month_raw) ==
  LET year_full == <<"2", "0">> \o Slice(year_month_raw, 0, 2)
      month_str == Slice(year_month_raw, 2, 4)
  IN  IF ~AllDecimal(month_str) \/ month_str = << >>
        THEN <<"Formato Invalido (Ano/Mes)">>
      ELSE IF int(month_str) <= 12
        THEN month_str \o <<"/">> \o year_full
      ELSE <<"Formato Invalido (Mes)">>

\* the "Ano/Mes Emissao" field: MM/20YY, or one of the two markers
FormatAnoMes(year_month_raw) ==
  LET year_full == <<"2", "0">> \o Slice(year_month_raw, 0, 2)
      month_str == Slice(year_month_raw, 2, 4)
  IN  IF ~AllDecimal(month_str) \/ month_str = << >>
        THEN <<"Formato Invalido (Ano/Mes)">>
      ELSE IF 1 <= int(month_str) /\ int(month_str) <= 12
        THEN month_str \o <<"/">> \o year_full
      ELSE <<"Formato Invalido (Mes)">>

FormatUF(uf_code) ==
  uf_code \o <<" - ">> \o <<DictGet(UF_CODES, uf_code, "UF Desconhecida")>>

FormatTipo(tipo_emissao_code) ==
  tipo_emissao_code \o <<" - ">>
    \o <<DictGet(EMISSION_TYPES, tipo_emissao_code, "Tipo Desconhecido")>>

FormatCnpj(c) ==
  Slice(c, 0, 2) \o <<".">> \o Slice(c, 2, 5) \o <<".">> \o Slice(c, 5, 8)
    \o <<"/">> \o Slice(c, 8, 12) \o <<"-">> \o Slice(c, 12, Len(c))

parse_nfe_key(key) ==
  [ UF     |-> FormatUF(Slice(key, 0, 2)),
    AnoMes |-> FormatAnoMes(Slice(key, 2, 6)),
    CNPJ   |-> FormatCnpj(Slice(key, 6, 20)),
    Modelo |-> Slice(key, 20, 22),
    Serie  |-> Slice(key, 22, 25),
    Numero |-> Slice(key, 25, 34),
    Tipo   |-> FormatTipo(Slice(key, 34, 35)) ]

\* ------------------------------------------------------------------- client
\* re.sub(r'\D', '', cnpj_text)
clean_cnpj(cnpj_text) == SelectSeq(cnpj_text, IsDecimalChar)

\* the guard before any request: not clean.isdigit() or len(clean) != 14
IsInvalidId(cnpj) ==
  ~str_isdigit(clean_cnpj(cnpj)) \/ Len(clean_cnpj(cnpj)) # CNPJ_LEN

\* a classification outcome: the string get_cnpj_tax_regime returns
Outcome(tag, code) == [tag |-> tag, code |-> code]

\* dict.get(flag, False) on a flag that may be absent from the JSON body
Flag(v) == IF v = "absent" THEN FALSE ELSE v = "true"

\* a variant of Classify that tests the Simples flag before the SIMEI flag
ClassifySwapped(resp) ==
  IF resp.status = 200 THEN
    IF resp.body = "malformed" THEN Outcome("Erro Inesperado", 0)
    ELSE IF Flag(resp.simples) THEN Outcome("Simples Nacional", 0)
    ELSE IF Flag(resp.simei) THEN Outcome("SIMEI", 0)
    ELSE Outcome("Regime Normal / Outros", 0)
  ELSE IF resp.status = 404 THEN Outcome("CNPJ Nao Encontrado na API", 0)
  ELSE Outcome("Erro na API", resp.status)

\* the outcome for a response that is not a 429
Classify(resp) ==
  IF resp.status = 200 THEN
    IF resp.body = "malformed" THEN Outcome("Erro Inesperado", 0)
    ELSE IF Flag(resp.simei) THEN Outcome("SIMEI", 0)
    ELSE IF Flag(resp.simples) THEN Outcome("Simples Nacional", 0)
    ELSE Outcome("Regime Normal / Outros", 0)
  ELSE IF resp.status = 404 THEN Outcome("CNPJ Nao Encontrado na API", 0)
  ELSE Outcome("Erro na API", resp.status)

\* what requests.get can produce: an HTTP response (status, and for a 200 the
\* JSON body's two optant flags), or one of the two transport exceptions
FlagValues == {"true", "false", "absent"}

HttpResponses ==
  [status : {200}, body : {"json"}, simei : FlagValues, simples : FlagValues]
    \cup [status : {200}, body : {"malformed"}, simei : {"absent"},
          simples : {"absent"}]
    \cup [status : {404, 429, 500}, body : {"none"}, simei : {"absent"},
          simples : {"absent"}]

Exceptions == {"Timeout", "ConnectionError"}

ExceptionOutcome(e) ==
  IF e = "Timeout" THEN Outcome("Tempo Limite da API Excedido", 0)
  ELSE Outcome("Erro de Conexao com a API", 0)

\* ------------------------------------------------------------- input lines
\* 01.624.149/0005-38, the issuer of the sample key
CNPJ_A == <<"0","1","6","2","4","1","4","9","0","0","0","5","3","8">>

\* model, series, number, emission type, numeric code and check digit
TAIL_A ==
  <<"5","5","0","0","1","0","0","0","1","0","9","8">>
    \o <<"4","2","1","0","0","3","2","9","5","2","6","3">>

MakeKey(uf, yymm, cnpj, tail) == uf \o yymm \o cnpj \o tail

\* 35250101624149000538550010001098421003295263
KeyA == MakeKey(<<"3","5">>, <<"2","5","0","1">>, CNPJ_A, TAIL_A)

\* KeyA with its check digit replaced by U+00B2
KeySup2 == [KeyA EXCEPT ![KEY_LEN] = "sup2"]

\* 44 characters, one of them a letter
KeyLetter == [KeyA EXCEPT ![10] = "A"]

\* a short line with a leading blank
ShortPadded == <<" ", "1", "2", "3">>

BlankLine == <<" ">>

\* KeyA with a digit of the issuer's tax id replaced by U+00B2
KeySup2Cnpj == [KeyA EXCEPT ![10] = "sup2"]

\* the lines the small batches are made of
RawLines == {KeyA, ShortPadded, BlankLine}

RECURSIVE SeqsUpTo(_, _)
SeqsUpTo(S, n) ==
  IF n = 0 THEN {<< >>}
  ELSE LET shorter == SeqsUpTo(S, n - 1)
       IN  shorter \cup {Append(q, x) : q \in {r \in shorter : Len(r) = n - 1}, x \in S}

\* a batch too long to enumerate freely: one valid key, then short lines
BigBatch(n) == [k \in 1..n |-> IF k = 1 THEN KeyA ELSE ShortPadded]

Inputs ==
  (SeqsUpTo(RawLines, MaxLines) \ {<< >>})
    \cup {<<<< >>>>, <<KeySup2>>, <<KeySup2Cnpj>>, <<KeyLetter>>,
          <<KeyA, KeyLetter, KeyA>>, <<KeyA, KeySup2>>}
    \cup {BigBatch(BATCH_CAP), BigBatch(BATCH_CAP + 1)}

\* ------------------------------------------------------------- orchestrator
\* keys_input.strip() is empty: nothing but white space was pasted
IsEmptyInput(lines) == \A n \in 1..Len(lines) : Strip(lines[n]) = << >>

\* k.strip() is not empty
NonBlank(line) == Strip(line) # << >>

\* [k.strip() for k in raw_keys if k.strip()]
CleanLines(lines) ==
  LET kept == SelectSeq(lines, NonBlank)
  IN  [n \in 1..Len(kept) |-> Strip(kept[n])]

\* a variant of TooLarge that already rejects 400 lines
TooLargeOffByOne(cleaned) == Len(cleaned) >= BATCH_CAP

\* len(cleaned_keys) > 400
TooLarge(cleaned) == Len(cleaned) > BATCH_CAP

\* len(key) != 44 or not key.isdigit()
IsInvalidKey(key) == Len(key) # KEY_LEN \/ ~str_isdigit(key)

\* a variant of PaceSleep that sleeps the whole interval whatever has elapsed
PaceSleepFixed(idx, t, start) == IF idx > 0 THEN RATE_LIMIT_SECONDS ELSE 0

\* the pause at the head of iteration idx, entered at time t
PaceSleep(idx, t, start) ==
  LET time_to_wait == idx * RATE_LIMIT_SECONDS - (t - start)
  IN  IF idx > 0 /\ time_to_wait > 0 THEN time_to_wait ELSE 0

INVALID == <<"Chave Invalida">>

PlaceholderRow(key) ==
  [ Chave |-> key, UF |-> INVALID, AnoMes |-> INVALID, CNPJ |-> INVALID,
    Modelo |-> INVALID, Serie |-> INVALID, Numero |-> INVALID,
    Tipo |-> INVALID, Regime |-> Outcome("Chave Invalida", 0) ]

MakeRow(key, tax_regime) ==
  [ Chave |-> key, Regime |-> tax_regime ] @@ parse_nfe_key(key)

\* a variant of AddRow that drops a key already in the table
AddRowDedup(rows, row) ==
  IF \E n \in 1..Len(rows) : rows[n].Chave = row.Chave THEN rows
  ELSE Append(rows, row)

\* results.append(...)
AddRow(rows, row) == Append(rows, row)

FailureTags ==
  { "CNPJ Nao Encontrado na API", "Erro na API", "Tempo Limite da API Excedido",
    "Erro de Conexao com a API", "Erro Inesperado" }

\* a variant of AfterCall that leaves the loop on a failed classification
AfterCallAbort(tax_regime) ==
  IF tax_regime.tag \in FailureTags THEN "abort" ELSE "loop"

\* where the loop goes once get_cnpj_tax_regime has returned: every outcome is
\* a returned string, so the loop goes on
AfterCall(tax_regime) == "loop"

\* -------------------------------------------------------------------- state
VARIABLES
  raw_lines,     \* the lines of the text area when the button is pressed
  pc,            \* where the button handler is
  message,       \* the st.warning / st.error / st.success shown
  cleaned_keys,  \* the non-blank, stripped lines
  results,       \* the rows appended so far
  i,             \* the loop index (0-based)
  now,           \* time.time(), in seconds
  start_time,    \* time.time() when the loop was entered
  cpc,           \* where get_cnpj_tax_regime is
  c_arg,         \* its argument
  depth,         \* nested get_cnpj_tax_regime frames
  c_out,         \* what a call made outside the batch returned
  c_resp,        \* the response that call returned on
  cur_resps,     \* the statuses the call in progress has received
  cur_slept,     \* the seconds the call in progress has slept in backoff
  n_calls,       \* get_cnpj_tax_regime calls the batch has made
  prev_start,    \* when the call before the latest one started (-1: none)
  last_start,    \* when the latest call started (-1: none)
  instant,       \* no call of the batch has taken any time so far
  last_pause,    \* the latest iteration: when it was entered, how long it slept
  last_row,      \* the latest row or call: what happened while it was made
  endpoint,      \* the answers requests.get can come back with
  dkey,          \* the key handed to parse_nfe_key alone
  dout           \* what parse_nfe_key returned for it

vars ==
  << raw_lines, pc, message, cleaned_keys, results, i, now, start_time, cpc,
     c_arg, depth, c_out, c_resp, cur_resps, cur_slept, n_calls, prev_start,
     last_start, instant, last_pause, last_row, endpoint, dkey, dout >>

client_vars == << cpc, c_arg, depth, c_out, c_resp, cur_resps, cur_slept >>

dec_vars == << dkey, dout >>

NoOutcome == Outcome("none", 0)

NoRow == PlaceholderRow(<< >>)

\* a transport exception, written as a response
ExcResponse(e) == [status |-> 0, body |-> e, simei |-> "absent", simples |-> "absent"]

NoResponse == ExcResponse("none")

Responses == HttpResponses \cup {ExcResponse(e) : e \in Exceptions}

\* the outcome of a response that ends the call
OutcomeOf(resp) ==
  IF resp.status = 0 THEN ExceptionOutcome(resp.body) ELSE Classify(resp)

\* how long requests.get takes to produce resp: a timeout takes the whole
\* timeout, anything else up to maxd seconds
Durations(resp, maxd) ==
  IF resp.body = "Timeout" THEN {TIMEOUT_SECONDS} ELSE 0..maxd

\* an answer of the endpoint: what requests.get produces, and after how long
Answers(resps, maxd) ==
  UNION {{[resp |-> r, d |-> d] : d \in Durations(r, maxd)} : r \in resps}

\* an endpoint that gives every kind of answer, each at once
VariedEndpoint ==
  Answers({r \in Responses : r.status = 200 /\ r.body = "json"
                               => r.simei = "true" /\ r.simples = "true"}, 0)

\* an endpoint that answers 200 or 429, at once or slowly
SlowEndpoint ==
  Answers({r \in Responses : r.status = 429 \/ (r.status = 200 /\ r.simei = "true"
                                                  /\ r.simples = "true")}, MaxDur)

\* an endpoint that gives every answer, at once or slowly
AnyEndpoint == Answers(Responses, MaxDur)

NoPause == [idx |-> -1, entered |-> 0, slept |-> 0]

RowInfo(called, statuses, slept, tax_regime) ==
  [called |-> called, statuses |-> statuses, slept |-> slept, out |-> tax_regime]

NoInfo == RowInfo(FALSE, << >>, 0, NoOutcome)

InitCommon ==
  /\ message = "none"
  /\ cleaned_keys = << >>
  /\ results = << >>
  /\ i = 0
  /\ now = 0
  /\ start_time = 0
  /\ cpc = "idle"
  /\ depth = 0
  /\ c_out = NoOutcome
  /\ c_resp = NoResponse
  /\ cur_resps = << >>
  /\ cur_slept = 0
  /\ n_calls = 0
  /\ prev_start = -1
  /\ last_start = -1
  /\ instant = TRUE
  /\ last_pause = NoPause
  /\ last_row = NoInfo
  /\ dout = NoRow

\* the page with some text pasted, before the button is pressed
Init ==
  /\ InitCommon
  /\ raw_lines \in Inputs
  /\ endpoint \in {VariedEndpoint, SlowEndpoint}
  /\ pc = "idle"
  /\ c_arg = << >>
  /\ dkey = << >>

\* ------------------------------------------------------------------ actions
\* the button handler up to the loop: the two entry checks
Press ==
  /\ pc = "idle"
  /\ IF IsEmptyInput(raw_lines)
       THEN /\ message' = "empty"
            /\ pc' = "rejected"
            /\ UNCHANGED << cleaned_keys, start_time >>
     ELSE IF TooLarge(CleanLines(raw_lines))
       THEN /\ message' = "too_large"
            /\ pc' = "rejected"
            /\ cleaned_keys' = CleanLines(raw_lines)
            /\ UNCHANGED start_time
     ELSE /\ message' = "processing"
          /\ pc' = "loop"
          /\ cleaned_keys' = CleanLines(raw_lines)
          /\ start_time' = now
  /\ results' = << >>
  /\ i' = 0
  /\ UNCHANGED << raw_lines, now, n_calls, prev_start, last_start, instant,
                  last_pause, last_row, endpoint >>
  /\ UNCHANGED client_vars
  /\ UNCHANGED dec_vars

Pause(t) == [idx |-> i, entered |-> t, slept |-> PaceSleep(i, t, start_time)]

\* one iteration over a line that fails the key check: pause, placeholder row
StepInvalidKey ==
  /\ pc = "loop"
  /\ i < Len(cleaned_keys)
  /\ IsInvalidKey(cleaned_keys[i + 1])
  /\ now' = now + PaceSleep(i, now, start_time)
  /\ last_pause' = Pause(now)
  /\ results' = AddRow(results, PlaceholderRow(cleaned_keys[i + 1]))
  /\ last_row' = RowInfo(FALSE, << >>, 0, Outcome("Chave Invalida", 0))
  /\ i' = i + 1
  /\ UNCHANGED << raw_lines, pc, message, cleaned_keys, start_time, n_calls,
                  prev_start, last_start, instant, endpoint >>
  /\ UNCHANGED client_vars
  /\ UNCHANGED dec_vars

\* one iteration over a line that passes the key check, up to the first
\* request of get_cnpj_tax_regime (or to its return, for an invalid tax id)
StepValidKey ==
  /\ pc = "loop"
  /\ i < Len(cleaned_keys)
  /\ ~IsInvalidKey(cleaned_keys[i + 1])
  /\ now' = now + PaceSleep(i, now, start_time)
  /\ last_pause' = Pause(now)
  /\ n_calls' = n_calls + 1
  /\ prev_start' = last_start
  /\ last_start' = now'
  /\ LET cnpj_to_query == clean_cnpj(Slice(cleaned_keys[i + 1], 6, 20))
     IN  IF IsInvalidId(cnpj_to_query)
           THEN /\ results' = AddRow(results, MakeRow(cleaned_keys[i + 1],
                                                    Outcome("CNPJ Invalido", 0)))
                /\ last_row' = RowInfo(TRUE, << >>, 0, Outcome("CNPJ Invalido", 0))
                /\ i' = i + 1
                /\ pc' = AfterCall(Outcome("CNPJ Invalido", 0))
                /\ UNCHANGED << cpc, c_arg, depth, cur_resps, cur_slept >>
         ELSE /\ pc' = "call"
              /\ cpc' = "request"
              /\ c_arg' = cnpj_to_query
              /\ depth' = 1
              /\ cur_resps' = << >>
              /\ cur_slept' = 0
              /\ UNCHANGED << results, last_row, i >>
  /\ UNCHANGED << raw_lines, message, cleaned_keys, start_time, instant, c_out,
                  c_resp, endpoint >>
  /\ UNCHANGED dec_vars

\* get_cnpj_tax_regime returns tax_regime at time t to whoever called it: the
\* batch loop appends the row and goes on
Return(tax_regime, t, resp, slept) ==
  /\ now' = t
  /\ last_row' = RowInfo(TRUE, Append(cur_resps, resp.status), slept, tax_regime)
  /\ cpc' = IF pc = "call" THEN "idle" ELSE "returned"
  /\ depth' = 0
  /\ cur_resps' = << >>
  /\ cur_slept' = 0
  /\ IF pc = "call"
       THEN /\ results' = AddRow(results, MakeRow(cleaned_keys[i + 1], tax_regime))
            /\ i' = i + 1
            /\ pc' = AfterCall(tax_regime)
            /\ instant' = (instant /\ t = last_start)
            /\ UNCHANGED << c_out, c_resp >>
     ELSE /\ c_out' = tax_regime
          /\ c_resp' = resp
          /\ UNCHANGED << results, i, pc, instant >>
  /\ UNCHANGED c_arg

\* requests.get comes back, with a response or an exception, and the frame
\* deals with it: an outcome is returned, or on a 429 the frame sleeps and
\* calls get_cnpj_tax_regime again, which raises RecursionError when the
\* stack is exhausted
Respond ==
  /\ cpc = "request"
  /\ \E a \in endpoint :
       IF a.resp.status # 429
         THEN Return(OutcomeOf(a.resp), now + a.d, a.resp, cur_slept)
       ELSE IF depth + 1 > RecursionLimit
         THEN Return(Outcome("Erro Inesperado", 0), now + a.d + BACKOFF_SECONDS,
                     a.resp, cur_slept + BACKOFF_SECONDS)
       ELSE /\ now' = now + a.d + BACKOFF_SECONDS
            /\ depth' = depth + 1
            /\ cur_resps' = Append(cur_resps, a.resp.status)
            /\ cur_slept' = cur_slept + BACKOFF_SECONDS
            /\ UNCHANGED << results, i, pc, instant, last_row, cpc, c_arg, c_out,
                            c_resp >>
  /\ UNCHANGED << raw_lines, message, cleaned_keys, start_time, n_calls,
                  prev_start, last_start, last_pause, endpoint >>
  /\ UNCHANGED dec_vars

\* the loop is over: the table is stored and success is reported
Finish ==
  /\ pc = "loop"
  /\ i = Len(cleaned_keys)
  /\ pc' = "done"
  /\ message' = IF results # << >> THEN "success" ELSE "nothing"
  /\ UNCHANGED << raw_lines, cleaned_keys, results, i, now, start_time, n_calls,
                  prev_start, last_start, instant, last_pause, last_row,
                  endpoint >>
  /\ UNCHANGED client_vars
  /\ UNCHANGED dec_vars

Next == Press \/ StepInvalidKey \/ StepValidKey \/ Respond \/ Finish

Spec == Init /\ [][Next]_vars

\* ------------------------------------------------- the client on its own
\* tax ids in any formatting: 14 digits, the punctuated form, and strings
\* that do not clean to 14 digits
TaxIds ==
  { CNPJ_A,
    FormatCnpj(CNPJ_A),
    Tail(CNPJ_A),
    CNPJ_A \o <<"7">>,
    [CNPJ_A EXCEPT ![5] = "sup2"],
    <<"A", "B">>,
    << >> }

InitCli ==
  /\ InitCommon
  /\ raw_lines = << >>
  /\ endpoint = AnyEndpoint
  /\ pc = "client"
  /\ c_arg \in TaxIds
  /\ dkey = << >>

\* get_cnpj_tax_regime(c_arg) called directly, up to its first request
CliCall ==
  /\ pc = "client"
  /\ cpc = "idle"
  /\ IF IsInvalidId(c_arg)
       THEN /\ cpc' = "returned"
            /\ c_out' = Outcome("CNPJ Invalido", 0)
            /\ last_row' = RowInfo(TRUE, << >>, 0, Outcome("CNPJ Invalido", 0))
            /\ UNCHANGED depth
     ELSE /\ cpc' = "request"
          /\ depth' = 1
          /\ UNCHANGED << c_out, last_row >>
  /\ UNCHANGED << raw_lines, pc, message, cleaned_keys, results, i, now,
                  start_time, c_arg, c_resp, cur_resps, cur_slept, n_calls,
                  prev_start, last_start, instant, last_pause, endpoint >>
  /\ UNCHANGED dec_vars

NextCli == CliCall \/ Respond

CliSpec == InitCli /\ [][NextCli]_vars

\* ------------------------------------------------ the decoder on its own
TwoDigits == {<<a, b>> : a \in Digits, b \in Digits}

\* 44-digit keys: every region code, and every month of three years
DecKeys ==
  {MakeKey(uf, <<"2","5","0","1">>, CNPJ_A, TAIL_A) : uf \in TwoDigits}
    \cup {MakeKey(<<"3","5">>, yy \o mm, CNPJ_A, TAIL_A) :
            yy \in {<<"0","0">>, <<"2","5">>, <<"9","9">>}, mm \in TwoDigits}
    \cup {MakeKey(<<"9","9">>, <<"2","5","1","3">>, CNPJ_A, TAIL_A)}

InitDec ==
  /\ InitCommon
  /\ raw_lines = << >>
  /\ endpoint = {}
  /\ pc = "decode"
  /\ c_arg = << >>
  /\ dkey \in DecKeys \cup {[KeyA EXCEPT ![5] = "sup2"]}

\* parse_nfe_key(dkey)
Decode ==
  /\ pc = "decode"
  /\ pc' = "decoded"
  /\ dout' = [Chave |-> dkey, Regime |-> NoOutcome] @@ parse_nfe_key(dkey)
  /\ UNCHANGED << raw_lines, message, cleaned_keys, results, i, now, start_time,
                  n_calls, prev_start, last_start, instant, last_pause, last_row,
                  endpoint, dkey >>
  /\ UNCHANGED client_vars

NextDec == Decode

DecSpec == InitDec /\ [][NextDec]_vars

\* ------------------------------------------------------------------ claims
\* the raw lines that hold something other than white space
NonBlankCount ==
  Cardinality({n \in 1..Len(raw_lines) :
                 \E m \in 1..Len(raw_lines[n]) : raw_lines[n][m] # " "})

Accepted == pc \in {"loop", "call", "done"}

\* 44 characters, each one of 0..9
IsDecimalKey(key) ==
  Len(key) = KEY_LEN /\ \A n \in 1..Len(key) : key[n] \in Digits

IsPlaceholder(row, key) ==
  /\ row.Chave = key
  /\ \A f \in {"UF", "AnoMes", "CNPJ", "Modelo", "Serie", "Numero", "Tipo"} :
       row[f] = INVALID
  /\ row.Regime.tag = "Chave Invalida"

\* C1: in an accepted batch the rows made so far are the first lines of the
\* input, in order, one row per non-blank line, each carrying that line's key
\* string; when the loop has finished there is exactly one row per non-blank
\* input line.
C1_OrderPreserved ==
  Accepted =>
    /\ Len(cleaned_keys) = NonBlankCount
    /\ Len(results) = i
    /\ i <= Len(cleaned_keys)
    /\ \A k \in 1..Len(results) : results[k].Chave = cleaned_keys[k]
    /\ (NonBlankCount = Len(raw_lines) =>
          \A k \in 1..Len(results) : results[k].Chave = Strip(raw_lines[k]))
    /\ (pc = "done" => Len(results) = NonBlankCount)

\* a finished batch of three lines, the first and third the same valid key, the
\* second an invalid one, with a failed and a successful classification
C1_Witness ==
  /\ pc = "done"
  /\ raw_lines = <<KeyA, KeyLetter, KeyA>>
  /\ Len(results) = 3
  /\ results[1].Chave = KeyA /\ results[3].Chave = KeyA
  /\ results[2].Chave = KeyLetter
  /\ results[1].Regime.tag = "Erro na API"
  /\ results[3].Regime.tag = "SIMEI"

\* C2: empty input and a batch of more than 400 non-blank lines are rejected
\* with no classification call and no row; a batch of 1 to 400 non-blank lines
\* is accepted, and processed to the end.
C2_BatchCap ==
  pc # "idle" =>
    /\ (NonBlankCount = 0 \/ NonBlankCount > 400) =>
         /\ pc = "rejected"
         /\ results = << >>
         /\ n_calls = 0
         /\ cpc = "idle"
         /\ last_row = NoInfo
         /\ message = (IF NonBlankCount = 0 THEN "empty" ELSE "too_large")
    /\ NonBlankCount \in 1..400 => Accepted

\* 401 non-blank lines, the first a valid key: rejected, nothing called
C2_Witness ==
  /\ NonBlankCount = 401
  /\ ~IsInvalidKey(Strip(raw_lines[1]))
  /\ pc = "rejected"
  /\ message = "too_large"
  /\ n_calls = 0
  /\ results = << >>

\* C3 (as claimed): every line that is not 44 decimal digits gets a
\* placeholder row, and no classification call is made for it.
C3_InvalidLinePlaceholder ==
  /\ \A k \in 1..Len(results) :
       ~IsDecimalKey(cleaned_keys[k]) => IsPlaceholder(results[k], cleaned_keys[k])
  /\ pc = "call" => IsDecimalKey(cleaned_keys[i + 1])

\* C4 (as claimed): two consecutive classification calls of a batch start at
\* least 4 seconds apart.
C4_CallsSpaced ==
  prev_start >= 0 => last_start - prev_start >= RATE_LIMIT_SECONDS

Max(a, b) == IF a > b THEN a ELSE b

\* C5: the first iteration does not sleep; iteration idx > 0 sleeps exactly
\* max(0, idx * 4 - elapsed), so none at all once past its target; a finished
\* batch of N lines has taken at least (N - 1) * 4 seconds, and exactly that
\* when every call was instantaneous.
C5_Pacing ==
  /\ last_pause.idx = 0 => last_pause.slept = 0
  /\ last_pause.idx > 0 =>
       last_pause.slept = Max(0, last_pause.idx * 4 - (last_pause.entered - start_time))
  /\ (last_pause.idx > 0 /\ last_pause.entered - start_time >= last_pause.idx * 4) =>
       last_pause.slept = 0
  /\ (n_calls = 1 /\ i = 0 /\ pc = "call") => last_start = start_time
  /\ pc = "done" => now - start_time >= (Len(cleaned_keys) - 1) * 4
  /\ (pc = "done" /\ instant) => now - start_time = (Len(cleaned_keys) - 1) * 4

\* three valid keys, three instantaneous calls, 8 seconds in all
C5_Witness ==
  /\ pc = "done"
  /\ Len(cleaned_keys) = 3
  /\ n_calls = 3
  /\ instant
  /\ last_pause.idx = 2 /\ last_pause.slept = 4
  /\ now - start_time = 8

\* C6 (as claimed): a classification call returns on the first response that
\* is not a 429, with that response's outcome, having slept 5 seconds for each
\* 429 before it.
C6_RetryUntilNon429 ==
  (last_row.called /\ last_row.statuses # << >>) =>
    LET n == Len(last_row.statuses)
    IN  /\ last_row.statuses[n] # 429
        /\ \A m \in 1..(n - 1) : last_row.statuses[m] = 429
        /\ last_row.slept = BACKOFF_SECONDS * (n - 1)

\* C7: a failed classification is the row's value and the loop goes on: the
\* handler is never anywhere but in the loop, in a call or finished, the row of
\* a finished call carries the call's outcome, a 404, another status, a timeout
\* and a connection error each give their failure, and a finished batch has a
\* row for every line.
C7_FailuresAreData ==
  /\ pc \in {"idle", "rejected", "loop", "call", "done"}
  /\ (pc \in {"loop", "done"} /\ last_row.called /\ i > 0 /\ Len(results) = i
        /\ last_pause.idx = i - 1) =>
       /\ results[i].Regime = last_row.out
       /\ last_row.statuses # << >> =>
            LET st == last_row.statuses[Len(last_row.statuses)]
            IN  /\ st = 404 => last_row.out.tag = "CNPJ Nao Encontrado na API"
                /\ st = 500 => last_row.out = Outcome("Erro na API", 500)
                /\ st = 0 => last_row.out.tag \in
                     {"Tempo Limite da API Excedido", "Erro de Conexao com a API"}
  /\ pc = "done" => Len(results) = Len(cleaned_keys)

\* a finished batch whose first two rows are failures and whose third is not
C7_Witness ==
  /\ pc = "done"
  /\ Len(results) = 3
  /\ results[1].Regime.tag = "Tempo Limite da API Excedido"
  /\ results[2].Regime = Outcome("Erro na API", 500)
  /\ results[3].Regime.tag = "SIMEI"

\* the decimal digits of a string, counted
DecimalCount(str) == Cardinality({n \in 1..Len(str) : str[n] \in Digits})

\* C8: a tax id that does not clean to 14 digits gives the invalid-id outcome
\* with no request; otherwise 200 gives SIMEI when the SIMEI flag is true,
\* Simples Nacional when only the Simples flag is, the normal regime when
\* neither is; 404 gives not-found; any other status but 429 gives the API
\* error with that status.
C8_ResponseMapping ==
  cpc = "returned" =>
    IF DecimalCount(c_arg) # 14
      THEN c_out.tag = "CNPJ Invalido" /\ last_row.statuses = << >>
    ELSE /\ Len(last_row.statuses) >= 1
         /\ (c_resp.status = 200 /\ c_resp.body = "json") =>
              /\ c_resp.simei = "true" => c_out.tag = "SIMEI"
              /\ (c_resp.simei # "true" /\ c_resp.simples = "true") =>
                   c_out.tag = "Simples Nacional"
              /\ (c_resp.simei # "true" /\ c_resp.simples # "true") =>
                   c_out.tag = "Regime Normal / Outros"
         /\ c_resp.status = 404 => c_out.tag = "CNPJ Nao Encontrado na API"
         /\ c_resp.status \notin {0, 200, 404, 429} =>
              c_out = Outcome("Erro na API", c_resp.status)

\* a punctuated tax id, both flags true: SIMEI
C8_Witness ==
  /\ cpc = "returned"
  /\ c_arg = FormatCnpj(CNPJ_A)
  /\ c_resp.status = 200 /\ c_resp.simei = "true" /\ c_resp.simples = "true"
  /\ c_out.tag = "SIMEI"

\* the month of a key, as a number
MonthOf(key) == 10 * DigitVal(key[5]) + DigitVal(key[6])

\* C9: for a key of 44 decimal digits the year/month field is MM/20YY when MM
\* is 1..12 and the invalid-month marker otherwise; the region field is the
\* code, " - " and the region's name, or the unknown-region label.
C9_DecoderFields ==
  (pc = "decoded" /\ IsDecimalKey(dkey)) =>
    /\ MonthOf(dkey) \in 1..12 =>
         dout.AnoMes = <<dkey[5], dkey[6], "/", "2", "0", dkey[3], dkey[4]>>
    /\ MonthOf(dkey) \notin 1..12 => dout.AnoMes = <<"Formato Invalido (Mes)">>
    /\ SubSeq(dkey, 3, 6) = <<"2","5","0","1">> =>
         dout.AnoMes = <<"0","1","/","2","0","2","5">>
    /\ SubSeq(dkey, 1, 2) = <<"3","5">> => dout.UF = <<"3","5"," - ","SP">>
    /\ SubSeq(dkey, 1, 2) = <<"9","9">> =>
         dout.UF = <<"9","9"," - ","UF Desconhecida">>
    /\ dout.UF[4] = "UF Desconhecida" <=> SubSeq(dkey, 1, 2) \notin DOMAIN UF_CODES

\* region 99, month 13: unknown region, invalid month
C9_Witness ==
  /\ pc = "decoded"
  /\ SubSeq(dkey, 1, 6) = <<"9","9","2","5","1","3">>
  /\ dout.AnoMes = <<"Formato Invalido (Mes)">>
  /\ dout.UF = <<"9","9"," - ","UF Desconhecida">>

\* C10 (as claimed): a batch does not complete on a call that was answered
\* with nothing but 429s: such a call never returns.
C10_Only429NeverReturns ==
  (pc \in {"loop", "done"} /\ last_row.called /\ last_row.statuses # << >>) =>
    \E n \in 1..Len(last_row.statuses) : last_row.statuses[n] # 429

====
